---- MODULE Spec2Model ----
(***************************************************************************)
(* The TicTacToe component (components/TicTacToe.tsx): three React state   *)
(* cells (board, xIsNext, hasStarted), the values a render derives from    *)
(* them (winner, line, isBoardFull, isDraw, isGameOver, statusText), the   *)
(* two event handlers handleClick and resetGame, and the exported pure     *)
(* function calculateWinner.                                               *)
(*                                                                         *)
(* Cells are indexed 0..8 as in the source.  A JavaScript array is a       *)
(* function from its own keys to values; reading a key it does not own     *)
(* yields Undefined, writing a key it does not own adds that key.          *)
(***************************************************************************)
EXTENDS Integers, Sequences, FiniteSets

VARIABLES
  board,       \* useState<Player[]>      : the latest value given to setBoard
  xIsNext,     \* useState<boolean>       : the latest value given to setXIsNext
  hasStarted,  \* useState<boolean>       : the latest value given to setHasStarted
  view,        \* the constants bound by the latest render (the handlers' closure)
  last         \* the latest handler call: its name, its argument, the closure it ran in

vars ==
  <<board, xIsNext, hasStarted, view, last>>

----------------------------------------------------------------------------
(* Values *)

Null ==
  "null"

Undefined ==
  "undefined"

BoardSize ==
  9

\* How far outside 0..BoardSize-1 the indices given to handleClick are drawn.
OutOfRange ==
  1

Cells ==
  0 .. (BoardSize - 1)

ClickInputs ==
  (0 - OutOfRange) .. (BoardSize - 1 + OutOfRange)

\* what last.index holds for a call that takes no index: a number no click is given
NoIndex ==
  (0 - OutOfRange) - 1

EmptyBoard ==
  [k \in Cells |-> Null]

AllBoards ==
  [Cells -> {Null, "X", "O"}]

NoLine ==
  <<>>

\* squares[i]
At(squares, i) ==
  IF i \in DOMAIN squares THEN squares[i] ELSE Undefined

\* JavaScript truthiness of a cell value
Truthy(v) ==
  v \notin {Null, Undefined}

\* nextBoard[index] = mark, on a copy
Store(squares, index, mark) ==
  [k \in (DOMAIN squares) \cup {index} |-> IF k = index THEN mark ELSE squares[k]]

----------------------------------------------------------------------------
(* calculateWinner *)

\* lines with the first column mistyped
lines_ColumnTypo ==
  << <<0, 1, 2>>, <<3, 4, 5>>, <<6, 7, 8>>,
     <<0, 3, 5>>, <<1, 4, 7>>, <<2, 5, 8>>,
     <<0, 4, 8>>, <<2, 4, 6>> >>

lines ==
  << <<0, 1, 2>>, <<3, 4, 5>>, <<6, 7, 8>>,
     <<0, 3, 6>>, <<1, 4, 7>>, <<2, 5, 8>>,
     <<0, 4, 8>>, <<2, 4, 6>> >>

\* LineMatches without the leading squares[a] &&
LineMatches_NoTruthTest(squares, k) ==
  LET a == lines[k][1]
      b == lines[k][2]
      c == lines[k][3]
  IN  /\ At(squares, a) = At(squares, b)
      /\ At(squares, a) = At(squares, c)

\* the condition of the if inside the loop, for the triple lines[k]
LineMatches(squares, k) ==
  LET a == lines[k][1]
      b == lines[k][2]
      c == lines[k][3]
  IN  /\ Truthy(At(squares, a))
      /\ At(squares, a) = At(squares, b)
      /\ At(squares, a) = At(squares, c)

RECURSIVE ScanLines(_, _)
\* the for loop from its k-th iteration on, and the return after it
ScanLines(squares, k) ==
  IF k > Len(lines)
  THEN [winner |-> Null, line |-> NoLine]
  ELSE IF LineMatches(squares, k)
       THEN [winner |-> At(squares, lines[k][1]), line |-> lines[k]]
       ELSE ScanLines(squares, k + 1)

\* calculateWinner with the loop starting one triple late
calculateWinner_SkipsFirst(squares) ==
  ScanLines(squares, 2)

calculateWinner(squares) ==
  ScanLines(squares, 1)

----------------------------------------------------------------------------
(* One render of the component *)

\* isBoardFull with some in place of every
isBoardFull_Some(b) ==
  \E k \in DOMAIN b : k >= 0 /\ b[k] # Null

\* board.every((c) => c !== null): every visits the keys 0..length-1 the array owns
isBoardFull(b) ==
  \A k \in DOMAIN b : k >= 0 => b[k] # Null

\* isDraw without the !winner test
isDraw_IgnoresWinner(winner, full) ==
  full

isDraw(winner, full) ==
  (~Truthy(winner)) /\ full

isGameOver(winner, draw) ==
  Truthy(winner) \/ draw

\* statusText naming the player who has just moved
statusText_TurnSwapped(winner, draw, x) ==
  IF Truthy(winner) THEN <<"Winner", winner>>
  ELSE IF draw THEN <<"It's a draw!">>
  ELSE <<"Turn", IF x THEN "O" ELSE "X">>

statusText(winner, draw, x) ==
  IF Truthy(winner) THEN <<"Winner", winner>>
  ELSE IF draw THEN <<"It's a draw!">>
  ELSE <<"Turn", IF x THEN "X" ELSE "O">>

Render(b, x, h) ==
  LET r    == calculateWinner(b)
      full == isBoardFull(b)
      draw == isDraw(r.winner, full)
  IN  [board       |-> b,
       xIsNext     |-> x,
       hasStarted  |-> h,
       winner      |-> r.winner,
       line        |-> r.line,
       isBoardFull |-> full,
       isDraw      |-> draw,
       isGameOver  |-> isGameOver(r.winner, draw),
       statusText  |-> statusText(r.winner, draw, x)]

----------------------------------------------------------------------------
(* The handlers, run in the closure v of the render they were created by *)

\* the early return without the isGameOver test
ClickReturns_NoGameOver(v, index) ==
  At(v.board, index) # Null

\* the early return without the occupied-cell test
ClickReturns_NoOccupied(v, index) ==
  v.isGameOver

\* the early return testing board[index] for truthiness instead of !== null
ClickReturns_Truthiness(v, index) ==
  v.isGameOver \/ Truthy(At(v.board, index))

\* the early return of handleClick
ClickReturns(v, index) ==
  v.isGameOver \/ At(v.board, index) # Null

\* the two marks swapped
MarkOf_Swapped(x) ==
  IF x THEN "O" ELSE "X"

\* xIsNext ? "X" : "O"
MarkOf(x) ==
  IF x THEN "X" ELSE "O"

\* handleClick without setXIsNext(!xIsNext)
handleClick_NoFlip(v, index) ==
  IF ClickReturns(v, index)
  THEN UNCHANGED <<board, xIsNext, hasStarted>>
  ELSE /\ board' = Store(v.board, index, MarkOf(v.xIsNext))
       /\ xIsNext' = xIsNext
       /\ hasStarted' = IF ~v.hasStarted THEN TRUE ELSE hasStarted

\* handleClick without setHasStarted(true)
handleClick_NoStart(v, index) ==
  IF ClickReturns(v, index)
  THEN UNCHANGED <<board, xIsNext, hasStarted>>
  ELSE /\ board' = Store(v.board, index, MarkOf(v.xIsNext))
       /\ xIsNext' = ~v.xIsNext
       /\ hasStarted' = hasStarted

handleClick(v, index) ==
  IF ClickReturns(v, index)
  THEN UNCHANGED <<board, xIsNext, hasStarted>>
  ELSE /\ board' = Store(v.board, index, MarkOf(v.xIsNext))
       /\ xIsNext' = ~v.xIsNext
       /\ hasStarted' = IF ~v.hasStarted THEN TRUE ELSE hasStarted

\* resetGame without setXIsNext(true)
resetGame_KeepsTurn ==
  /\ board' = EmptyBoard
  /\ xIsNext' = xIsNext
  /\ hasStarted' = FALSE

resetGame ==
  /\ board' = EmptyBoard
  /\ xIsNext' = TRUE
  /\ hasStarted' = FALSE

----------------------------------------------------------------------------
(* The component driven by its buttons: React runs the handler of one      *)
(* click to its end and renders again before the next click is delivered.  *)

Init ==
  /\ board = EmptyBoard
  /\ xIsNext = TRUE
  /\ hasStarted = FALSE
  /\ view = Render(EmptyBoard, TRUE, FALSE)
  /\ last = [op |-> "mount", index |-> NoIndex, pre |-> Render(EmptyBoard, TRUE, FALSE)]

ClickCell(index) ==
  /\ handleClick(view, index)
  /\ view' = Render(board', xIsNext', hasStarted')
  /\ last' = [op |-> "handleClick", index |-> index, pre |-> view]

ClickNewGame ==
  /\ resetGame
  /\ view' = Render(board', xIsNext', hasStarted')
  /\ last' = [op |-> "resetGame", index |-> NoIndex, pre |-> view]

Next ==
  \/ \E index \in ClickInputs : ClickCell(index)
  \/ ClickNewGame

Spec ==
  Init /\ [][Next]_vars

----------------------------------------------------------------------------
(* calculateWinner and the derived values of a render applied to every     *)
(* array of nine Player values, whether play can produce it or not: the    *)
(* state cells hold the input and the render evaluates it.                 *)

InitEval ==
  /\ board \in AllBoards
  /\ xIsNext \in BOOLEAN
  /\ hasStarted \in BOOLEAN
  /\ view = Render(EmptyBoard, TRUE, FALSE)
  /\ last = [op |-> "mount", index |-> NoIndex, pre |-> Render(EmptyBoard, TRUE, FALSE)]

Rerender ==
  /\ \/ view.board # board
     \/ view.xIsNext # xIsNext
     \/ view.hasStarted # hasStarted
  /\ view' = Render(board, xIsNext, hasStarted)
  /\ UNCHANGED <<board, xIsNext, hasStarted, last>>

NextEval ==
  Rerender

SpecEval ==
  InitEval /\ [][NextEval]_vars

----------------------------------------------------------------------------
(* The handlers called without waiting for React: setBoard, setXIsNext and *)
(* setHasStarted only queue the new values, and the closure a handler runs *)
(* in is replaced by the next render alone.  A caller that invokes the     *)
(* handlers of one render several times before React renders again runs    *)
(* each call in the same closure.                                          *)

CallHandleClick(index) ==
  /\ handleClick(view, index)
  /\ last' = [op |-> "handleClick", index |-> index, pre |-> view]
  /\ UNCHANGED view

CallResetGame ==
  /\ resetGame
  /\ last' = [op |-> "resetGame", index |-> NoIndex, pre |-> view]
  /\ UNCHANGED view

NextBatched ==
  \/ \E index \in ClickInputs : CallHandleClick(index)
  \/ CallResetGame
  \/ Rerender

SpecBatched ==
  Init /\ [][NextBatched]_vars

----------------------------------------------------------------------------
(* One game played to its end: the only clicks are clicks on cells whose   *)
(* button shows no mark, New Game is not clicked, and such clicks keep     *)
(* coming for as long as a cell is empty.                                  *)

\* a click on a cell whose button shows no mark
MoveOnEmptyCell ==
  \E index \in Cells : board[index] = Null /\ ClickCell(index)

NextPlay ==
  MoveOnEmptyCell

SpecPlay ==
  Init /\ [][NextPlay]_vars /\ WF_vars(MoveOnEmptyCell)

----------------------------------------------------------------------------
(* Vocabulary of the properties, stated on boards and not through the      *)
(* component's own derived values.                                         *)

\* the eight winning triples in the order the specification fixes
Triples ==
  << <<0, 1, 2>>, <<3, 4, 5>>, <<6, 7, 8>>,
     <<0, 3, 6>>, <<1, 4, 7>>, <<2, 5, 8>>,
     <<0, 4, 8>>, <<2, 4, 6>> >>

Marks ==
  {"X", "O"}

\* the positions in Triples whose three cells hold the same mark
Uniform(b) ==
  {k \in 1 .. Len(Triples) :
     \E m \in Marks : \A j \in 1 .. 3 : b[Triples[k][j]] = m}

Full(b) ==
  \A c \in Cells : b[c] \in Marks

Won(b) ==
  Uniform(b) # {}

Drawn(b) ==
  Uniform(b) = {} /\ Full(b)

InProgress(b) ==
  Uniform(b) = {} /\ ~Full(b)

MarkCount(b) ==
  Cardinality({c \in Cells : b[c] \in Marks})

\* the latest call was handleClick(i)
Clicked(i) ==
  last.op = "handleClick" /\ last.index = i

\* the board after the first k calls of seq, were each accepted: marks alternate
\* from X
Played(seq, k) ==
  [c \in Cells |->
     IF \E j \in 1 .. k : seq[j] = c
     THEN IF (CHOOSE j \in 1 .. k : seq[j] = c) % 2 = 1 THEN "X" ELSE "O"
     ELSE Null]

----------------------------------------------------------------------------
(* C1.  Terminal states absorb moves: a handleClick call made when the     *)
(* board is Won or Drawn changes no cell and leaves the same winner, line  *)
(* and draw flag; a step from a terminal board to a non-terminal one is a  *)
(* resetGame call.                                                         *)
C1_TerminalAbsorbs ==
  /\ (last.op = "handleClick" /\ (Won(last.pre.board) \/ Drawn(last.pre.board)))
       => /\ board = last.pre.board
          /\ view.winner = last.pre.winner
          /\ view.line = last.pre.line
          /\ view.isDraw = last.pre.isDraw
          /\ Won(board) = Won(last.pre.board)
          /\ view.isGameOver
  /\ ((Won(last.pre.board) \/ Drawn(last.pre.board)) /\ InProgress(board))
       => last.op = "resetGame"

\* a click on an empty cell of a won board has been absorbed
C1_Witness ==
  /\ last.op = "handleClick"
  /\ last.index \in Cells
  /\ Won(last.pre.board)
  /\ last.pre.board[last.index] = Null
  /\ board = last.pre.board

(* C2.  handleClick on an occupied cell 0..8 changes none of board,        *)
(* xIsNext, hasStarted; handleClick(0) twice from the initial state leaves *)
(* exactly one mark, X at 0, with O to move.                               *)
C2_OccupiedNoOp ==
  /\ \A i \in Cells :
       (Clicked(i) /\ last.pre.board[i] # Null)
         => /\ board = last.pre.board
            /\ xIsNext = last.pre.xIsNext
            /\ hasStarted = last.pre.hasStarted
  /\ (Clicked(0) /\ last.pre.board = EmptyBoard)
       => board = Played(<<0, 0>>, 1)
  /\ (Clicked(0) /\ last.pre.board = Played(<<0, 0>>, 1))
       => /\ board = [EmptyBoard EXCEPT ![0] = "X"]
          /\ MarkCount(board) = 1
          /\ xIsNext = FALSE

\* the second of two handleClick(0) calls has run
C2_Witness ==
  /\ Clicked(0)
  /\ last.pre.board = [EmptyBoard EXCEPT ![0] = "X"]
  /\ MarkCount(board) = 1

(* C3.  handleClick with an index outside 0..8 leaves the board (nine      *)
(* cells, keys 0..8), xIsNext and hasStarted unchanged.                    *)
C3_OutOfRangeNoOp ==
  /\ DOMAIN board = Cells
  /\ (last.op = "handleClick" /\ last.index \notin Cells)
       => /\ board = last.pre.board
          /\ xIsNext = last.pre.xIsNext
          /\ hasStarted = last.pre.hasStarted

\* handleClick(9) has run on a game in progress
C3_Witness ==
  /\ Clicked(BoardSize)
  /\ InProgress(last.pre.board)
  /\ MarkCount(last.pre.board) > 0

(* C4.  An accepted handleClick(i) (board in progress, i in 0..8, cell i   *)
(* empty) writes the mark of the turn before the call into cell i, leaves  *)
(* the other eight cells, flips the turn and sets hasStarted.              *)
C4_AcceptedMove ==
  \A i \in Cells :
    (Clicked(i) /\ InProgress(last.pre.board) /\ last.pre.board[i] = Null)
      => /\ board[i] = (IF last.pre.xIsNext THEN "X" ELSE "O")
         /\ \A c \in Cells \ {i} : board[c] = last.pre.board[c]
         /\ DOMAIN board = Cells
         /\ xIsNext = ~last.pre.xIsNext
         /\ hasStarted = TRUE

\* O has just been placed on an empty cell
C4_Witness ==
  /\ last.op = "handleClick"
  /\ last.index \in Cells
  /\ last.pre.board[last.index] = Null
  /\ ~last.pre.xIsNext
  /\ board[last.index] = "O"

(* C5.  resetGame can be called in every reachable state and yields the    *)
(* initial state: nine empty cells, X to move, hasStarted false, game in   *)
(* progress.                                                               *)
C5_ResetRestores ==
  /\ ENABLED ClickNewGame
  /\ last.op = "resetGame"
       => /\ board = EmptyBoard
          /\ xIsNext = TRUE
          /\ hasStarted = FALSE
          /\ InProgress(board)
          /\ ~view.isGameOver
          /\ view.winner = Null
          /\ view.statusText = <<"Turn", "X">>

\* resetGame has been called on a drawn board with O to move
C5_Witness ==
  /\ last.op = "resetGame"
  /\ Drawn(last.pre.board)
  /\ ~last.pre.xIsNext
  /\ board = EmptyBoard

(* C6.  For every array of nine values among null, X, O, calculateWinner   *)
(* returns the first triple of the fixed order whose three cells hold the  *)
(* same mark, with that mark as winner, and returns no winner and no line  *)
(* when no triple does.                                                    *)
C6_FirstUniformTriple ==
  LET b == view.board
      u == Uniform(b)
  IN  /\ b \in AllBoards
      /\ u = {} => (view.winner = Null /\ view.line = NoLine)
      /\ u # {} =>
           LET first == CHOOSE k \in u : \A j \in u : k <= j
           IN  /\ view.line = Triples[first]
               /\ view.winner = b[Triples[first][1]]
               /\ view.winner \in Marks

\* a board no play produces has been evaluated: both marks hold a triple, two
\* triples of the fixed order are uniform and the first of the order is not
C6_Witness ==
  /\ view.board = board
  /\ Cardinality(Uniform(board)) >= 2
  /\ 1 \notin Uniform(board)
  /\ \E k \in Uniform(board) : board[Triples[k][1]] = "X"
  /\ \E k \in Uniform(board) : board[Triples[k][1]] = "O"
  /\ view.line \in {Triples[k] : k \in Uniform(board)}

(* C7.  For every array of nine values among null, X, O with no uniform    *)
(* triple, the render reports a draw when no cell is null and a game in    *)
(* progress when some cell is null.                                        *)
C7_DrawOrInProgress ==
  LET b == view.board
  IN  Uniform(b) = {} =>
        /\ view.winner = Null
        /\ Full(b) => (view.isDraw /\ view.isGameOver /\ view.isBoardFull)
        /\ ~Full(b) => (~view.isDraw /\ ~view.isGameOver /\ ~view.isBoardFull)

\* a full board without a uniform triple, with mark counts no play produces,
\* has been evaluated as a draw
C7_Witness ==
  /\ view.board = board
  /\ Drawn(board)
  /\ Cardinality({c \in Cells : board[c] = "O"}) > Cardinality({c \in Cells : board[c] = "X"})
  /\ view.isDraw

----------------------------------------------------------------------------
(* Move sequences.  A sequence is followed call by call: the k-th call     *)
(* runs on the board the first k-1 calls are expected to have produced.    *)

DrawSeq ==
  <<0, 1, 2, 4, 3, 5, 6, 8, 7>>

WinSeq ==
  <<0, 3, 1, 4, 2>>

\* the call seq[k] has just run on the board expected after k-1 calls
Step(seq, k) ==
  Clicked(seq[k]) /\ last.pre.board = Played(seq, k - 1)

(* C8 as stated.  From the initial state the calls handleClick(0), (1),    *)
(* (2), (4), (3), (5), (6), (8), (7) are all accepted, no triple is        *)
(* uniform after any of them, and the last leaves a full, drawn board.     *)
C8_AsStated ==
  /\ last.op = "mount" => board = Played(DrawSeq, 0)
  /\ \A k \in 1 .. Len(DrawSeq) :
       Step(DrawSeq, k)
         => /\ board = Played(DrawSeq, k)
            /\ Uniform(board) = {}
            /\ view.winner = Null
            /\ k = Len(DrawSeq) => (Full(board) /\ view.isDraw)

(* C8 as amended.  From the initial state the calls handleClick(0), (1),   *)
(* (2), (4), (3), (5) are accepted and leave the game in progress with no  *)
(* uniform triple; handleClick(6) is accepted and completes the column     *)
(* 0,3,6 for X, so the game is won by X with line [0,3,6]; handleClick(8)  *)
(* and handleClick(7) are then ignored, and the sequence ends with seven   *)
(* marks on the board, won by X, not drawn.                                *)
C8_WonAtSeventhMove ==
  /\ last.op = "mount" => board = Played(DrawSeq, 0)
  /\ \A k \in 1 .. 6 :
       Step(DrawSeq, k)
         => /\ board = Played(DrawSeq, k)
            /\ InProgress(board)
            /\ view.winner = Null
            /\ ~view.isGameOver
  /\ Step(DrawSeq, 7)
       => /\ board = Played(DrawSeq, 7)
          /\ view.winner = "X"
          /\ view.line = <<0, 3, 6>>
          /\ view.isGameOver
          /\ ~view.isDraw
  /\ \A k \in 8 .. 9 :
       (Clicked(DrawSeq[k]) /\ last.pre.board = Played(DrawSeq, 7))
         => /\ board = Played(DrawSeq, 7)
            /\ MarkCount(board) = 7
            /\ view.winner = "X"
            /\ view.line = <<0, 3, 6>>
            /\ ~view.isDraw
            /\ ~Full(board)

\* the last call of the sequence, handleClick(7), has run on the board won at
\* the seventh call
C8_Witness ==
  /\ Clicked(7)
  /\ last.pre.board = Played(DrawSeq, 7)
  /\ last.pre.board[7] = Null
  /\ board = Played(DrawSeq, 7)
  /\ view.winner = "X"

(* C9.  From the initial state the calls handleClick(0), (3), (1), (4),    *)
(* (2) place X, O, X, O, X; the game is in progress after each of the      *)
(* first four and after the fifth it is won by X with line [0,1,2].        *)
C9_TopRowWin ==
  /\ last.op = "mount" => (board = Played(WinSeq, 0) /\ xIsNext = TRUE)
  /\ \A k \in 1 .. 4 :
       Step(WinSeq, k)
         => /\ board = Played(WinSeq, k)
            /\ board[WinSeq[k]] = (IF k % 2 = 1 THEN "X" ELSE "O")
            /\ InProgress(board)
            /\ view.winner = Null
            /\ ~view.isGameOver
            /\ view.statusText[1] = "Turn"
  /\ Step(WinSeq, 5)
       => /\ board = Played(WinSeq, 5)
          /\ board[2] = "X"
          /\ view.winner = "X"
          /\ view.line = <<0, 1, 2>>
          /\ view.isGameOver
          /\ ~view.isDraw

\* the fifth call has just completed the top row
C9_Witness ==
  /\ Step(WinSeq, 5)
  /\ board = Played(WinSeq, 5)
  /\ view.winner = "X"

----------------------------------------------------------------------------
(* C12.  In every reachable state the status text is one of three          *)
(* announcements fixed by the state: the winner and its mark when a triple *)
(* is uniform, the draw when the board is full without one, and otherwise  *)
(* the turn with the mark of the player to move; the turn is announced     *)
(* exactly when the game is in progress.                                   *)
C12_StatusProjection ==
  LET s == view.statusText
  IN  /\ view.board = board
      /\ Won(board) => \E k \in Uniform(board) : s = <<"Winner", board[Triples[k][1]]>>
      /\ Drawn(board) => s = <<"It's a draw!">>
      /\ InProgress(board) => s = <<"Turn", IF xIsNext THEN "X" ELSE "O">>
      /\ (s[1] = "Turn") <=> InProgress(board)

\* O's win is announced
C12_Witness ==
  /\ Won(board)
  /\ view.statusText = <<"Winner", "O">>

(* C13 as stated.  In every reachable state at most one of the eight       *)
(* triples is uniform.                                                     *)
C13_AsStated ==
  Cardinality(Uniform(board)) <= 1

(* C13 as amended.  In every reachable state at most two of the eight      *)
(* triples are uniform, and when two are they hold the same mark, share    *)
(* exactly one cell, and that cell is the one the last accepted move       *)
(* filled: a board with two simultaneous winning lines is reachable, one   *)
(* with three is not.                                                      *)
C13_AtMostTwoLines ==
  /\ Cardinality(Uniform(board)) <= 2
  /\ \A k1, k2 \in Uniform(board) :
       k1 # k2 =>
         /\ board[Triples[k1][1]] = board[Triples[k2][1]]
         /\ LET shared == {Triples[k1][j] : j \in 1 .. 3} \cap {Triples[k2][j] : j \in 1 .. 3}
            IN  /\ Cardinality(shared) = 1
                /\ (last.op = "handleClick" /\ last.pre.board # board)
                     => shared = {last.index}

\* the ninth move has completed a row and a column at once
C13_Witness ==
  /\ last.op = "handleClick"
  /\ last.pre.board # board
  /\ Uniform(last.pre.board) = {}
  /\ Cardinality(Uniform(board)) = 2

(* C14.  Won and drawn exclude each other and a win takes precedence over  *)
(* a full board: when the move that fills the ninth cell completes a       *)
(* triple the game is won, with that mark and line, and not drawn; the     *)
(* draw flag holds exactly when all nine cells are marked and no triple is *)
(* uniform.                                                                *)
C14_WinBeforeDraw ==
  /\ ~(Truthy(view.winner) /\ view.isDraw)
  /\ view.isDraw <=> (Full(board) /\ Uniform(board) = {})
  /\ Truthy(view.winner) <=> Won(board)
  /\ (Full(board) /\ Won(board))
       => /\ ~view.isDraw
          /\ view.winner \in Marks
          /\ view.line \in {Triples[k] : k \in Uniform(board)}
          /\ \A j \in 1 .. 3 : board[view.line[j]] = view.winner
          /\ view.statusText = <<"Winner", view.winner>>

\* the move that filled the ninth cell has completed a triple
C14_Witness ==
  /\ last.op = "handleClick"
  /\ MarkCount(last.pre.board) = 8
  /\ Full(board)
  /\ Won(board)
  /\ ~view.isDraw

(* C15.  In every reachable state the number of X cells minus the number   *)
(* of O cells is 0 or 1, and X is to move exactly when the two numbers are *)
(* equal.                                                                  *)
C15_TurnMatchesCounts ==
  LET nx == Cardinality({c \in Cells : board[c] = "X"})
      no == Cardinality({c \in Cells : board[c] = "O"})
  IN  /\ nx - no \in {0, 1}
      /\ xIsNext <=> (nx = no)
      /\ (~xIsNext) <=> (nx = no + 1)

\* X has just made an accepted move and O is to move
C15_Witness ==
  /\ last.op = "handleClick"
  /\ last.pre.board # board
  /\ MarkCount(board) = 5
  /\ ~xIsNext

(* C16.  In every reachable state hasStarted is true exactly when the      *)
(* board holds a mark: false initially and after resetGame, true from the  *)
(* first accepted move, and left alone by a rejected move.                 *)
C16_StartedIffMarked ==
  /\ hasStarted <=> (MarkCount(board) > 0)
  /\ last.op \in {"mount", "resetGame"} => ~hasStarted
  /\ (last.op = "handleClick" /\ last.pre.board # board) => hasStarted
  /\ (last.op = "handleClick" /\ last.pre.board = board)
       => hasStarted = last.pre.hasStarted

\* the first accepted move after a start has set hasStarted
C16_Witness ==
  /\ last.op = "handleClick"
  /\ ~last.pre.hasStarted
  /\ MarkCount(board) = 1
  /\ hasStarted

(* C17.  In every reachable won state the winner is the player who moved   *)
(* last: the winning mark is the opposite of the mark to move, and the     *)
(* three cells of the reported line hold the winning mark.                 *)
C17_WinnerMovedLast ==
  (Won(board) \/ Truthy(view.winner))
    => /\ view.winner \in Marks
       /\ view.winner = (IF xIsNext THEN "O" ELSE "X")
       /\ Len(view.line) = 3
       /\ \A j \in 1 .. 3 : board[view.line[j]] = view.winner

\* O has won and X is to move
C17_Witness ==
  /\ view.winner = "O"
  /\ xIsNext
  /\ last.op = "handleClick"
  /\ last.pre.board # board

(* C18.  In every reachable state at most one player holds a uniform       *)
(* triple, so every uniform triple holds the reported winner's mark        *)
(* whatever the order the triples are checked in.                          *)
C18_OneWinnerOnly ==
  /\ \A k1, k2 \in Uniform(board) : board[Triples[k1][1]] = board[Triples[k2][1]]
  /\ \A k \in Uniform(board) : board[Triples[k][1]] = view.winner

\* two triples are uniform, so the order of the check chooses the line, and
\* both hold the winner's mark
C18_Witness ==
  /\ Cardinality(Uniform(board)) = 2
  /\ view.winner \in Marks
  /\ \E k \in Uniform(board) : Triples[k] # view.line

----------------------------------------------------------------------------
(* C11.  Every handleClick or resetGame call acts on the state the         *)
(* previous call left, also when both calls come from the closure of one   *)
(* render: handleClick(i) is rejected or accepted according to the current *)
(* board, an accepted call adds the mark of the current turn to the        *)
(* current board and flips the current turn, and no mark already on the    *)
(* board is removed by a handleClick call.                                 *)
C11_AsStated ==
  [][\A i \in ClickInputs :
       (last'.op = "handleClick" /\ CallHandleClick(i))
         => /\ IF Won(board) \/ Drawn(board) \/ i \notin Cells \/ board[i] # Null
               THEN UNCHANGED <<board, xIsNext, hasStarted>>
               ELSE /\ board' = [board EXCEPT ![i] = IF xIsNext THEN "X" ELSE "O"]
                    /\ xIsNext' = ~xIsNext
                    /\ hasStarted' = TRUE
            /\ \A c \in Cells : board[c] \in Marks => board'[c] = board[c]]_vars

(* C19.  Every game terminates.  Each accepted move marks one more cell of *)
(* a board in progress, so at most nine are accepted after a reset; no     *)
(* board with fewer than five marks is won or drawn; a board in progress   *)
(* has an empty cell and a click on any empty cell is accepted; and when   *)
(* clicks on empty cells keep coming and New Game is not clicked, a game   *)
(* in progress leads to a won or drawn board.                              *)
C19_Safety ==
  /\ MarkCount(board) <= BoardSize
  /\ (last.op = "handleClick" /\ last.pre.board # board)
       => /\ InProgress(last.pre.board)
          /\ MarkCount(board) = MarkCount(last.pre.board) + 1
  /\ (Won(board) \/ Drawn(board)) => MarkCount(board) >= 5
  /\ InProgress(board)
       => /\ \E i \in Cells : board[i] = Null
          /\ \A i \in Cells :
               board[i] = Null => ENABLED (ClickCell(i) /\ board'[i] \in Marks)

C19_GamesTerminate ==
  /\ []C19_Safety
  /\ InProgress(board) ~> (Won(board) \/ Drawn(board))

\* a game has ended at the earliest possible move, the fifth
C19_Witness ==
  /\ last.op = "handleClick"
  /\ InProgress(last.pre.board)
  /\ Won(board)
  /\ MarkCount(board) = 5

====
